---- MODULE Spec2Model ----
(***************************************************************************)
(* Model of sophia's triple streaming layer:                               *)
(*   src/sophia/src/triple/stream.rs  (TripleSource::in_sink / in_graph,   *)
(*                                     AsTripleSource, TripleSink for ()) *)
(*   src/sophia/src/streams.rs        (TripleSource::into_sink /           *)
(*                                     into_graph, WrapAsOks, WhereFrom,   *)
(*                                     UnwrapWhereFrom, AsUpstream,        *)
(*                                     AsDownstream)                       *)
(* A run of a driver is modelled call by call: every pull on the source,   *)
(* every feed and every finish on the sink is one step, and is appended to *)
(* the history variable `calls`.                                           *)
(***************************************************************************)
EXTENDS Integers, Sequences, FiniteSets, TLC

\* ---------------------------------------------------------------- bounds
\* Longest source sequence explored.
MaxLen == 3
\* Largest number of driver runs made on one source.
MaxRuns == 2

\* ---------------------------------------------------------------- values
\* Triples are (subject, predicate, object) records of opaque terms.
Triples == { <<"a", "p", "1">>, <<"a", "p", "2">>, <<"b", "p", "3">> }
\* Source-native and sink-native error values.
SourceErrors == { "se1", "se2" }
SinkErrors == { "ke1", "ke2" }
\* The unit value ().
Unit == "()"

\* std::result::Result
Ok(v) == [ok |-> TRUE, val |-> v]
Err(e) == [ok |-> FALSE, err |-> e]
\* std::option::Option, as returned by Iterator::next
Some(x) == [some |-> TRUE, item |-> x]
None == [some |-> FALSE]

\* enum WhereFrom<U, D> { Upstream(U), Downstream(D) }   (streams.rs)
Upstream(e) == [tag |-> "Upstream", err |-> e]
Downstream(e) == [tag |-> "Downstream", err |-> e]
\* enum StreamError<SourceErr, SinkErr>, used by triple/stream.rs
SourceError(e) == [tag |-> "SourceError", err |-> e]
SinkError(e) == [tag |-> "SinkError", err |-> e]

\* ------------------------------------------------------------ conversions
\* Variant: as_upstream replaces the error it tags.
as_upstream_replaces_error(r) ==
    IF r.ok THEN Ok(r.val) ELSE Err(Upstream("se1"))
\* AsUpstream::as_upstream
as_upstream(r) == IF r.ok THEN Ok(r.val) ELSE Err(Upstream(r.err))
\* Variant: a sink error tagged as an upstream one.
as_downstream_tags_upstream(r) ==
    IF r.ok THEN Ok(r.val) ELSE Err(Upstream(r.err))
\* AsDownstream::as_downstream
as_downstream(r) == IF r.ok THEN Ok(r.val) ELSE Err(Downstream(r.err))
\* tr.map_err(SourceError) and r.map_err(SinkError) of in_sink
map_err_SourceError(r) == IF r.ok THEN r ELSE Err(SourceError(r.err))
\* Variant: a sink error tagged as a source error.
map_err_SinkError_tags_source(r) ==
    IF r.ok THEN r ELSE Err(SourceError(r.err))
map_err_SinkError(r) == IF r.ok THEN r ELSE Err(SinkError(r.err))

\* The value a panicking call leaves in place of a result.
Panic(e) == [panic |-> TRUE, msg |-> e]

\* Variant: unwrap_upstream with the two error arms exchanged.
unwrap_upstream_swapped(r) ==
    IF r.ok THEN Ok(r.val)
    ELSE IF r.err.tag = "Upstream" THEN Err(r.err.err)
    ELSE Panic(r.err.err)
\* UnwrapWhereFrom::unwrap_upstream
unwrap_upstream(r) ==
    IF r.ok THEN Ok(r.val)
    ELSE IF r.err.tag = "Upstream" THEN Panic(r.err.err)
    ELSE Err(r.err.err)
\* UnwrapWhereFrom::unwrap_downstream
unwrap_downstream(r) ==
    IF r.ok THEN Ok(r.val)
    ELSE IF r.err.tag = "Upstream" THEN Err(r.err.err)
    ELSE Panic(r.err.err)

\* ---------------------------------------------------------------- sources
\* Variant: the adapter loses the first item.
as_triple_source_skips_first(it) ==
    IF it = <<>> THEN <<>> ELSE [i \in 1..(Len(it) - 1) |-> Ok(it[i + 1])]
\* AsTripleSource::as_triple_source:  self.map(Ok)
as_triple_source(it) == [i \in 1..Len(it) |-> Ok(it[i])]
\* WrapAsOks::wrap_as_oks:  self.map(Result::Ok)
wrap_as_oks(it) == [i \in 1..Len(it) |-> Ok(it[i])]

\* All sequences over S of length at most n.
SeqsUpTo(S, n) == UNION { [1..k -> S] : k \in 0..n }
\* The items a fallible source can yield.
Items == { Ok(t) : t \in Triples } \cup { Err(e) : e \in SourceErrors }

\* A source is a sequence of items and the number of items already taken.
\* Iterator::next
next(it, p) ==
    IF p < Len(it) THEN [item |-> Some(it[p + 1]), pos |-> p + 1]
    ELSE [item |-> None, pos |-> p]

\* ------------------------------------------------------------------ sinks
\* A sink value: its kind and, for a graph inserter, the borrowed graph
\* (contents in insertion order, duplicate policy) and the running count.
NoTriple == <<>>
SinkOf(kind, graph, dedup, count) ==
    [kind |-> kind, graph |-> graph, dedup |-> dedup, count |-> count]
\* The sink ()
UnitSink == SinkOf("unit", <<>>, FALSE, 0)
\* Some implementation of trait TripleSink, about which nothing is known
AnySink == SinkOf("any", <<>>, FALSE, 0)
\* Outcomes an arbitrary sink may produce.
Outcomes == { "o1", "o2" }
\* Graphs handed to in_graph / into_graph.
Graphs == SeqsUpTo(Triples, 1)

\* Variant: a () that rejects what it is fed.
unit_feed_rejects(self, tr) == [res |-> Err("ke1"), sink |-> self]
\* impl TripleSink for ()  (triple/stream.rs): feed and finish
unit_feed(self, tr) == [res |-> Ok(Unit), sink |-> self]
unit_finish(self) == [res |-> Ok(Unit), sink |-> self]
\* impl TripleSink for ()  (streams.rs): feed and finish
unit_feed_streams(self, tr) == [res |-> Ok(Unit), sink |-> self]
unit_finish_streams(self) == [res |-> Ok(Unit), sink |-> self]

\* MutableGraph::insert: fails with a mutation error, or reports whether
\* the triple was newly added (a graph may refuse duplicates).
InRange(x, s) == \E i \in 1..Len(s) : s[i] = x
graph_insert(self, tr) ==
    { [res |-> Err(e), sink |-> self] : e \in SinkErrors }
    \cup
    { LET inserted == ~self.dedup \/ ~InRange(tr, self.graph)
      IN  [res |-> Ok(inserted),
           sink |-> IF inserted
                    THEN [self EXCEPT !.graph = Append(self.graph, tr)]
                    ELSE self] }
\* Inserter::feed: insert, and count the triple when it was newly added
inserter_feed(self, tr) ==
    { IF o.res.ok
      THEN [res |-> Ok(Unit),
            sink |-> IF o.res.val
                     THEN [o.sink EXCEPT !.count = o.sink.count + 1]
                     ELSE o.sink]
      ELSE [res |-> o.res, sink |-> o.sink] : o \in graph_insert(self, tr) }
\* Inserter::finish: the count
inserter_finish(self) == { [res |-> Ok(self.count), sink |-> self] }
\* MutableGraph::inserter
inserter(graph, dedup) == SinkOf("inserter", graph, dedup, 0)

\* TripleSink::feed of an arbitrary implementation: any result
any_feed(self, tr) ==
    { [res |-> Ok(Unit), sink |-> self] }
    \cup { [res |-> Err(e), sink |-> self] : e \in SinkErrors }
\* TripleSink::finish of an arbitrary implementation: any result
any_finish(self) ==
    { [res |-> Ok(o), sink |-> self] : o \in Outcomes }
    \cup { [res |-> Err(e), sink |-> self] : e \in SinkErrors }

\* sink.feed(&t), dispatched on the sink's type; d is the driver's module
feed(d, self, tr) ==
    CASE self.kind = "unit" ->
            { IF d = "in_sink" THEN unit_feed(self, tr)
                               ELSE unit_feed_streams(self, tr) }
      [] self.kind = "inserter" -> inserter_feed(self, tr)
      [] OTHER -> any_feed(self, tr)
\* sink.finish(), dispatched on the sink's type
finish(d, self) ==
    CASE self.kind = "unit" ->
            { IF d = "in_sink" THEN unit_finish(self)
                               ELSE unit_finish_streams(self) }
      [] self.kind = "inserter" -> inserter_finish(self)
      [] OTHER -> any_finish(self)

\* The plain Results a caller may hand to as_upstream / as_downstream.
RawResults ==
    { Ok(v) : v \in Outcomes \cup { Unit } }
    \cup { Err(e) : e \in SourceErrors \cup SinkErrors }

\* ------------------------------------------------------------------ state
VARIABLES
    orig,      \* the sequence the caller's iterator was built on
    iter,      \* the caller's iterator: the whole sequence it yields
    layers,    \* how many Results wrap a triple in the iterator's items
    adapter,   \* the adapter applied to the iterator, or "none"
    pos,       \* number of items already taken from the iterator
    runs,      \* number of driver runs started on this iterator
    start,     \* pos when the current run started
    driver,    \* "none", "in_sink" or "into_sink": the loop that is running
    entry,     \* the method the caller called
    pc,        \* "start", "loop", "feed", "finish", "done", "end" or
               \* "converted"
    t,         \* the triple the loop holds between the pull and the feed
    sink,      \* the sink of the current run
    graph0,    \* contents of the graph when in_graph / into_graph was called
    calls,     \* the pulls, feeds and finishes of the current run, in order
    result,    \* the value the driver returned
    conv,      \* the conversion the caller applied to the result, or "none"
    unwrapped  \* what that conversion returned

vars == << orig, iter, layers, adapter, pos, runs, start, driver, entry, pc,
           t, sink, graph0, calls, result, conv, unwrapped >>

\* No value yet.
Pending == [pending |-> TRUE]

Call(op, arg, res) == [op |-> op, arg |-> arg, res |-> res]

Init ==
    /\ \/ /\ layers = 1
          /\ iter \in SeqsUpTo(Items, MaxLen)
       \/ /\ layers = 0
          /\ iter \in SeqsUpTo(Triples, MaxLen)
    /\ orig = iter
    /\ adapter = "none"
    /\ pos = 0
    /\ runs = 0
    /\ start = 0
    /\ driver = "none"
    /\ entry = "none"
    /\ pc = "start"
    /\ t = NoTriple
    /\ sink = UnitSink
    /\ graph0 = <<>>
    /\ calls = <<>>
    /\ result = Pending
    /\ conv = "none"
    /\ unwrapped = Pending

\* --------------------------------------------------------------- adapters
\* it.as_triple_source(): implemented for iterators whose items are Triples
AsTripleSource ==
    /\ pc = "start"
    /\ adapter = "none"
    /\ layers = 0
    /\ iter' = as_triple_source(iter)
    /\ layers' = layers + 1
    /\ adapter' = "as_triple_source"
    /\ UNCHANGED << orig, pos, runs, start, driver, entry, pc, t, sink, graph0,
                    calls, result, conv, unwrapped >>

\* it.wrap_as_oks(): implemented for every iterator, whatever its items
WrapAsOks ==
    /\ pc = "start"
    /\ adapter = "none"
    /\ iter' = wrap_as_oks(iter)
    /\ layers' = layers + 1
    /\ adapter' = "wrap_as_oks"
    /\ UNCHANGED << orig, pos, runs, start, driver, entry, pc, t, sink, graph0,
                    calls, result, conv, unwrapped >>

\* ------------------------------------------------------------ entry points
\* TripleSource is implemented for iterators of Result<T, E> with T a
\* Triple.  A run can start on a fresh iterator, or on one that an earlier
\* in_sink run only borrowed; into_sink takes the iterator by value.
CanCall ==
    /\ layers = 1
    /\ runs < MaxRuns
    /\ \/ pc = "start"
       \/ pc = "done" /\ driver = "in_sink"

Enter(d, e, snk) ==
    /\ CanCall
    /\ driver' = d
    /\ entry' = e
    /\ sink' = snk
    /\ graph0' = snk.graph
    /\ runs' = runs + 1
    /\ start' = pos
    /\ pc' = "loop"
    /\ t' = NoTriple
    /\ calls' = <<>>
    /\ result' = Pending
    /\ UNCHANGED << orig, iter, layers, adapter, pos, conv, unwrapped >>

\* source.in_sink(&mut sink)
in_sink == \E snk \in { UnitSink, AnySink } : Enter("in_sink", "in_sink", snk)

\* Variant: in_graph drains into () instead of the graph's inserter.
in_graph_into_unit ==
    \E g \in Graphs, dedup \in BOOLEAN :
        Enter("in_sink", "in_graph", UnitSink)

\* source.in_graph(&mut graph):  self.in_sink(&mut graph.inserter())
in_graph ==
    \E g \in Graphs, dedup \in BOOLEAN :
        Enter("in_sink", "in_graph", inserter(g, dedup))

\* source.into_sink(&mut sink)
into_sink ==
    \E snk \in { UnitSink, AnySink } : Enter("into_sink", "into_sink", snk)

\* source.into_graph(&mut graph):  self.into_sink(&mut graph.inserter())
into_graph ==
    \E g \in Graphs, dedup \in BOOLEAN :
        Enter("into_sink", "into_graph", inserter(g, dedup))

\* ------------------------------------------------- in_sink (stream.rs)
\* Variant: an item the source failed on is left in the source.
in_sink_next_leaves_failed ==
    /\ driver = "in_sink"
    /\ pc = "loop"
    /\ LET n == next(iter, pos)
       IN  /\ calls' = Append(calls, Call("next", NoTriple, n.item))
           /\ IF ~n.item.some
              THEN /\ pc' = "finish"
                   /\ pos' = n.pos
                   /\ UNCHANGED << t, result >>
              ELSE LET tr == map_err_SourceError(n.item.item)
                   IN  IF tr.ok
                       THEN /\ t' = tr.val
                            /\ pc' = "feed"
                            /\ pos' = n.pos
                            /\ UNCHANGED result
                       ELSE /\ result' = tr
                            /\ pc' = "done"
                            /\ UNCHANGED << t, pos >>
    /\ UNCHANGED << orig, iter, layers, adapter, runs, start, driver, entry,
                    sink, graph0, conv, unwrapped >>

\* Variant: a source failure undoes what the sink accumulated.
in_sink_next_rolls_back ==
    /\ driver = "in_sink"
    /\ pc = "loop"
    /\ LET n == next(iter, pos)
       IN  /\ pos' = n.pos
           /\ calls' = Append(calls, Call("next", NoTriple, n.item))
           /\ IF ~n.item.some
              THEN /\ pc' = "finish"
                   /\ UNCHANGED << t, result, sink >>
              ELSE LET tr == map_err_SourceError(n.item.item)
                   IN  IF tr.ok
                       THEN /\ t' = tr.val
                            /\ pc' = "feed"
                            /\ UNCHANGED << result, sink >>
                       ELSE /\ result' = tr
                            /\ pc' = "done"
                            /\ sink' = [sink EXCEPT !.graph = graph0,
                                                    !.count = 0]
                            /\ UNCHANGED t
    /\ UNCHANGED << orig, iter, layers, adapter, runs, start, driver, entry,
                    graph0, conv, unwrapped >>

\* Variant: the loop skips an item the source failed on.
in_sink_next_skips_failed ==
    /\ driver = "in_sink"
    /\ pc = "loop"
    /\ LET n == next(iter, pos)
       IN  /\ pos' = n.pos
           /\ calls' = Append(calls, Call("next", NoTriple, n.item))
           /\ IF ~n.item.some
              THEN /\ pc' = "finish"
                   /\ UNCHANGED << t, result >>
              ELSE LET tr == map_err_SourceError(n.item.item)
                   IN  IF tr.ok
                       THEN /\ t' = tr.val
                            /\ pc' = "feed"
                            /\ UNCHANGED result
                       ELSE /\ pc' = "loop"
                            /\ UNCHANGED << t, result >>
    /\ UNCHANGED << orig, iter, layers, adapter, runs, start, driver, entry,
                    sink, graph0, conv, unwrapped >>

\* for tr in self { let t = tr.map_err(SourceError)?; ...
in_sink_next ==
    /\ driver = "in_sink"
    /\ pc = "loop"
    /\ LET n == next(iter, pos)
       IN  /\ pos' = n.pos
           /\ calls' = Append(calls, Call("next", NoTriple, n.item))
           /\ IF ~n.item.some
              THEN /\ pc' = "finish"
                   /\ UNCHANGED << t, result >>
              ELSE LET tr == map_err_SourceError(n.item.item)
                   IN  IF tr.ok
                       THEN /\ t' = tr.val
                            /\ pc' = "feed"
                            /\ UNCHANGED result
                       ELSE /\ result' = tr
                            /\ pc' = "done"
                            /\ UNCHANGED t
    /\ UNCHANGED << orig, iter, layers, adapter, runs, start, driver, entry,
                    sink, graph0, conv, unwrapped >>

\* Variant: a failed feed is tried again on the same triple.
in_sink_feed_retries ==
    /\ driver = "in_sink"
    /\ pc = "feed"
    /\ \E o \in feed("in_sink", sink, t) :
         LET r == map_err_SinkError(o.res)
         IN  /\ sink' = o.sink
             /\ calls' = Append(calls, Call("feed", t, o.res))
             /\ UNCHANGED result
             /\ IF r.ok
                THEN /\ pc' = "loop"
                     /\ t' = NoTriple
                ELSE /\ pc' = "feed"
                     /\ UNCHANGED t
    /\ UNCHANGED << orig, iter, layers, adapter, pos, runs, start, driver,
                    entry, graph0, conv, unwrapped >>

\* Variant: the loop ends after the first triple it fed.
in_sink_feed_once ==
    /\ driver = "in_sink"
    /\ pc = "feed"
    /\ \E o \in feed("in_sink", sink, t) :
         LET r == map_err_SinkError(o.res)
         IN  /\ sink' = o.sink
             /\ calls' = Append(calls, Call("feed", t, o.res))
             /\ t' = NoTriple
             /\ IF r.ok
                THEN /\ pc' = "finish"
                     /\ UNCHANGED result
                ELSE /\ result' = r
                     /\ pc' = "done"
    /\ UNCHANGED << orig, iter, layers, adapter, pos, runs, start, driver,
                    entry, graph0, conv, unwrapped >>

\* Variant: a failed feed breaks out of the loop, and finish is called.
in_sink_feed_breaks ==
    /\ driver = "in_sink"
    /\ pc = "feed"
    /\ \E o \in feed("in_sink", sink, t) :
         /\ sink' = o.sink
         /\ calls' = Append(calls, Call("feed", t, o.res))
         /\ t' = NoTriple
         /\ pc' = IF o.res.ok THEN "loop" ELSE "finish"
         /\ UNCHANGED result
    /\ UNCHANGED << orig, iter, layers, adapter, pos, runs, start, driver,
                    entry, graph0, conv, unwrapped >>

\* ... sink.feed(&t).map_err(SinkError)?; }
in_sink_feed ==
    /\ driver = "in_sink"
    /\ pc = "feed"
    /\ \E o \in feed("in_sink", sink, t) :
         LET r == map_err_SinkError(o.res)
         IN  /\ sink' = o.sink
             /\ calls' = Append(calls, Call("feed", t, o.res))
             /\ t' = NoTriple
             /\ IF r.ok
                THEN /\ pc' = "loop"
                     /\ UNCHANGED result
                ELSE /\ result' = r
                     /\ pc' = "done"
    /\ UNCHANGED << orig, iter, layers, adapter, pos, runs, start, driver,
                    entry, graph0, conv, unwrapped >>

\* Ok(sink.finish().map_err(SinkError)?)
in_sink_finish ==
    /\ driver = "in_sink"
    /\ pc = "finish"
    /\ \E o \in finish("in_sink", sink) :
         LET r == map_err_SinkError(o.res)
         IN  /\ sink' = o.sink
             /\ calls' = Append(calls, Call("finish", NoTriple, o.res))
             /\ result' = IF r.ok THEN Ok(r.val) ELSE r
             /\ pc' = "done"
    /\ UNCHANGED << orig, iter, layers, adapter, pos, runs, start, driver,
                    entry, t, graph0, conv, unwrapped >>

\* ------------------------------------------------ into_sink (streams.rs)
\* Variant: the loop pulls the same item again and again.
into_sink_next_rewinds ==
    /\ driver = "into_sink"
    /\ pc = "loop"
    /\ LET n == next(iter, pos)
       IN  /\ pos' = pos
           /\ calls' = Append(calls, Call("next", NoTriple, n.item))
           /\ IF ~n.item.some
              THEN /\ pc' = "finish"
                   /\ UNCHANGED << t, result >>
              ELSE LET tr == as_upstream(n.item.item)
                   IN  IF tr.ok
                       THEN /\ t' = tr.val
                            /\ pc' = "feed"
                            /\ UNCHANGED result
                       ELSE /\ result' = tr
                            /\ pc' = "done"
                            /\ UNCHANGED t
    /\ UNCHANGED << orig, iter, layers, adapter, runs, start, driver, entry,
                    sink, graph0, conv, unwrapped >>

\* Variant: the loop skips an item the source failed on.
into_sink_next_skips_failed ==
    /\ driver = "into_sink"
    /\ pc = "loop"
    /\ LET n == next(iter, pos)
       IN  /\ pos' = n.pos
           /\ calls' = Append(calls, Call("next", NoTriple, n.item))
           /\ IF ~n.item.some
              THEN /\ pc' = "finish"
                   /\ UNCHANGED << t, result >>
              ELSE LET tr == as_upstream(n.item.item)
                   IN  IF tr.ok
                       THEN /\ t' = tr.val
                            /\ pc' = "feed"
                            /\ UNCHANGED result
                       ELSE /\ pc' = "loop"
                            /\ UNCHANGED << t, result >>
    /\ UNCHANGED << orig, iter, layers, adapter, runs, start, driver, entry,
                    sink, graph0, conv, unwrapped >>

\* for tr in self { let t = tr.as_upstream()?; ...
into_sink_next ==
    /\ driver = "into_sink"
    /\ pc = "loop"
    /\ LET n == next(iter, pos)
       IN  /\ pos' = n.pos
           /\ calls' = Append(calls, Call("next", NoTriple, n.item))
           /\ IF ~n.item.some
              THEN /\ pc' = "finish"
                   /\ UNCHANGED << t, result >>
              ELSE LET tr == as_upstream(n.item.item)
                   IN  IF tr.ok
                       THEN /\ t' = tr.val
                            /\ pc' = "feed"
                            /\ UNCHANGED result
                       ELSE /\ result' = tr
                            /\ pc' = "done"
                            /\ UNCHANGED t
    /\ UNCHANGED << orig, iter, layers, adapter, runs, start, driver, entry,
                    sink, graph0, conv, unwrapped >>

\* Variant: the result of feed is ignored.
into_sink_feed_ignores_result ==
    /\ driver = "into_sink"
    /\ pc = "feed"
    /\ \E o \in feed("into_sink", sink, t) :
         /\ sink' = o.sink
         /\ calls' = Append(calls, Call("feed", t, o.res))
         /\ t' = NoTriple
         /\ pc' = "loop"
         /\ UNCHANGED result
    /\ UNCHANGED << orig, iter, layers, adapter, pos, runs, start, driver,
                    entry, graph0, conv, unwrapped >>

\* ... sink.feed(&t).as_downstream()?; }
into_sink_feed ==
    /\ driver = "into_sink"
    /\ pc = "feed"
    /\ \E o \in feed("into_sink", sink, t) :
         LET r == as_downstream(o.res)
         IN  /\ sink' = o.sink
             /\ calls' = Append(calls, Call("feed", t, o.res))
             /\ t' = NoTriple
             /\ IF r.ok
                THEN /\ pc' = "loop"
                     /\ UNCHANGED result
                ELSE /\ result' = r
                     /\ pc' = "done"
    /\ UNCHANGED << orig, iter, layers, adapter, pos, runs, start, driver,
                    entry, graph0, conv, unwrapped >>

\* Variant: an error of finish is tagged as an upstream one.
into_sink_finish_tags_upstream ==
    /\ driver = "into_sink"
    /\ pc = "finish"
    /\ \E o \in finish("into_sink", sink) :
         /\ sink' = o.sink
         /\ calls' = Append(calls, Call("finish", NoTriple, o.res))
         /\ result' = as_upstream(o.res)
         /\ pc' = "done"
    /\ UNCHANGED << orig, iter, layers, adapter, pos, runs, start, driver,
                    entry, t, graph0, conv, unwrapped >>

\* return sink.finish().as_downstream()
into_sink_finish ==
    /\ driver = "into_sink"
    /\ pc = "finish"
    /\ \E o \in finish("into_sink", sink) :
         /\ sink' = o.sink
         /\ calls' = Append(calls, Call("finish", NoTriple, o.res))
         /\ result' = as_downstream(o.res)
         /\ pc' = "done"
    /\ UNCHANGED << orig, iter, layers, adapter, pos, runs, start, driver,
                    entry, t, graph0, conv, unwrapped >>

\* ---------------------------------------------------------------- callers
\* The caller of into_sink / into_graph converts the result it got.
UnwrapUpstream ==
    /\ driver = "into_sink"
    /\ pc = "done"
    /\ conv' = "unwrap_upstream"
    /\ unwrapped' = unwrap_upstream(result)
    /\ pc' = "end"
    /\ UNCHANGED << orig, iter, layers, adapter, pos, runs, start, driver,
                    entry, t, sink, graph0, calls, result >>

UnwrapDownstream ==
    /\ driver = "into_sink"
    /\ pc = "done"
    /\ conv' = "unwrap_downstream"
    /\ unwrapped' = unwrap_downstream(result)
    /\ pc' = "end"
    /\ UNCHANGED << orig, iter, layers, adapter, pos, runs, start, driver,
                    entry, t, sink, graph0, calls, result >>

\* Any caller may mark a plain Result with an origin: r.as_upstream()
AsUpstream ==
    /\ pc = "start"
    /\ adapter = "none"
    /\ \E r \in RawResults :
         /\ result' = r
         /\ unwrapped' = as_upstream(r)
    /\ conv' = "as_upstream"
    /\ pc' = "converted"
    /\ UNCHANGED << orig, iter, layers, adapter, pos, runs, start, driver,
                    entry, t, sink, graph0, calls >>

\* r.as_downstream()
AsDownstream ==
    /\ pc = "start"
    /\ adapter = "none"
    /\ \E r \in RawResults :
         /\ result' = r
         /\ unwrapped' = as_downstream(r)
    /\ conv' = "as_downstream"
    /\ pc' = "converted"
    /\ UNCHANGED << orig, iter, layers, adapter, pos, runs, start, driver,
                    entry, t, sink, graph0, calls >>

Next ==
    \/ AsTripleSource
    \/ WrapAsOks
    \/ in_sink
    \/ in_graph
    \/ into_sink
    \/ into_graph
    \/ in_sink_next
    \/ in_sink_feed
    \/ in_sink_finish
    \/ into_sink_next
    \/ into_sink_feed
    \/ into_sink_finish
    \/ UnwrapUpstream
    \/ UnwrapDownstream
    \/ AsUpstream
    \/ AsDownstream

Spec == Init /\ [][Next]_vars

\* A step of a running driver.  The code is synchronous and every call on
\* the source and the sink returns, so a running driver takes its next step.
DriverStep ==
    \/ in_sink_next
    \/ in_sink_feed
    \/ in_sink_finish
    \/ into_sink_next
    \/ into_sink_feed
    \/ into_sink_finish

LiveSpec == Spec /\ WF_vars(DriverStep)

\* ===================================================== reading a run
\* The driver has returned.
Done == pc \in { "done", "end" }
\* The source sequence of the current run: the items not taken before it.
T == SubSeq(iter, start + 1, Len(iter))
\* The indices of the calls of one kind, and their number.
Idx(op) == { i \in 1..Len(calls) : calls[i].op = op }
NPulls == Cardinality(Idx("next"))
NFeeds == Cardinality(Idx("feed"))
NFinish == Cardinality(Idx("finish"))
IsFeed(c) == c.op = "feed"
\* The triples feed was called on, in call order.
FeedCalls == SelectSeq(calls, IsFeed)
FeedArgs == [i \in 1..Len(FeedCalls) |-> FeedCalls[i].arg]
\* A call that failed: a pull that yielded Some(Err(e)), a feed or a finish
\* that returned Err(e); and the error value it failed with.
Failed(c) ==
    IF c.op = "next" THEN c.res.some /\ ~c.res.item.ok ELSE ~c.res.ok
ErrorOf(c) == IF c.op = "next" THEN c.res.item.err ELSE c.res.err
FailedIdx == { i \in 1..Len(calls) : Failed(calls[i]) }
\* No item of the run's source is a failure.
FailureFree(s) == \A i \in 1..Len(s) : s[i].ok
\* The provenance of a returned error.
SourceTagged(r) == ~r.ok /\ r.err.tag \in { "Upstream", "SourceError" }
SinkTagged(r) == ~r.ok /\ r.err.tag \in { "Downstream", "SinkError" }
LastCall == calls[Len(calls)]

\* ================================================================ claims

\* C1: when no pull fails and neither feed nor finish fails, a run feeds
\* exactly the triples of its source sequence, in order, then calls finish
\* once as its last call, and returns Ok of the outcome finish produced.
C1_DrainFeedsAllThenFinishes ==
    (Done /\ FailureFree(T) /\ FailedIdx = {}) =>
        /\ Len(FeedArgs) = Len(T)
        /\ \A i \in 1..Len(T) : FeedArgs[i] = T[i].val
        /\ NFinish = 1
        /\ LastCall.op = "finish"
        /\ \A i \in Idx("feed") : i < Len(calls)
        /\ result = Ok(LastCall.res.val)

C1_Witness ==
    /\ Done /\ FailureFree(T) /\ FailedIdx = {}
    /\ Len(T) = 3
    /\ T[1] # T[2] /\ T[2] # T[3]
    /\ sink.kind = "any"

\* C2: a source failure on the k-th pull ends the run: k-1 feeds were made,
\* nothing is called afterwards, finish is not called, and the result is an
\* error tagged as coming from the source.
C2_SourceFailureStops ==
    \A k \in Idx("next") :
        Failed(calls[k]) =>
            /\ k = Len(calls)
            /\ Done
            /\ NFeeds = NPulls - 1
            /\ NFinish = 0
            /\ SourceTagged(result)

C2_Witness ==
    /\ Done
    /\ Len(calls) = 3
    /\ calls[1].op = "next" /\ calls[1].res = Some(Ok(<<"a", "p", "1">>))
    /\ calls[2].op = "feed" /\ calls[2].res.ok
    /\ calls[3].op = "next" /\ Failed(calls[3])

\* C3: a feed failure on the k-th triple ends the run after exactly k pulls
\* and k feeds: finish is not called, the source is not pulled again, and the
\* result is an error tagged as coming from the sink.
C3_FeedFailureStops ==
    \A k \in Idx("feed") :
        Failed(calls[k]) =>
            /\ k = Len(calls)
            /\ Done
            /\ NFeeds = NPulls
            /\ pos = start + NFeeds
            /\ NFinish = 0
            /\ SinkTagged(result)

C3_Witness ==
    /\ Done
    /\ NFeeds = 2
    /\ Failed(LastCall) /\ LastCall.op = "feed"
    /\ Len(T) = 3

\* C4: when the source is exhausted without failure and every feed
\* succeeded, a failing finish makes the run return finish's error tagged as
\* coming from the sink, and no outcome.
C4_FinishFailureIsSinkError ==
    \A k \in Idx("finish") :
        Failed(calls[k]) =>
            /\ Done
            /\ ~result.ok
            /\ SinkTagged(result)
            /\ result.err.err = calls[k].res.err

C4_Witness ==
    /\ Done
    /\ NFeeds = 2
    /\ LastCall.op = "finish" /\ Failed(LastCall)

\* C5: in every state of every run finish has been called at most once,
\* only after a pull reported exhaustion or a source failure, and no feed
\* follows a finish.
C5_FinishOnceAfterDrainNoFeedAfter ==
    /\ NFinish <= 1
    /\ \A i \in Idx("finish") :
         /\ \E j \in Idx("next") :
              j < i /\ (~calls[j].res.some \/ Failed(calls[j]))
         /\ \A j \in Idx("feed") : j < i

C5_Witness ==
    /\ Done
    /\ sink.kind = "any"
    /\ NFinish = 1
    /\ NFeeds = 2

\* C6: the sink () returns Ok(()) from every feed and finish and is left
\* unchanged, and a failure-free source drained into it gives Ok(()).
C6_UnitSinkNeverFails ==
    sink.kind = "unit" =>
        /\ sink = UnitSink
        /\ \A i \in Idx("feed") \cup Idx("finish") : calls[i].res = Ok(Unit)
        /\ (Done /\ FailureFree(T)) => result = Ok(Unit)

C6_Witness ==
    /\ sink.kind = "unit"
    /\ Done /\ FailureFree(T)
    /\ NFeeds = 3
    /\ NFinish = 1

\* C7: once a pull, a feed or a finish has failed, that call is the last
\* call of the run, and the run returns an error with exactly one tag: the
\* source tag for a pull, the sink tag otherwise, carrying the error value
\* of the failed call.
C7_FirstErrorWins ==
    \A i \in FailedIdx :
        (\A j \in FailedIdx : i <= j) =>
            /\ i = Len(calls)
            /\ Done
            /\ ~result.ok
            /\ SourceTagged(result) # SinkTagged(result)
            /\ SourceTagged(result) <=> (calls[i].op = "next")
            /\ result.err.err = ErrorOf(calls[i])

C7_Witness ==
    /\ Done
    /\ FailedIdx = { 3 }
    /\ calls[3].op = "next"
    /\ ErrorOf(calls[3]) = "se2"
    /\ result.err.err = "se2"
    /\ NFeeds = 1
    /\ Len(T) = 3 /\ ~T[3].ok /\ T[3].err = "se1"

\* The graph contents after the triples of s are offered to it in order.
RECURSIVE InsertAll(_, _, _)
InsertAll(g, dedup, s) ==
    IF s = <<>> THEN g
    ELSE InsertAll(IF dedup /\ InRange(Head(s), g) THEN g
                   ELSE Append(g, Head(s)),
                   dedup, Tail(s))

\* C8: in_graph / into_graph run the driver against the graph's inserter;
\* a failure-free run returns Ok(n) where n is the number of triples the
\* graph newly inserted, and the graph received them in source order.
C8_InGraphCountsInserted ==
    (entry \in { "in_graph", "into_graph" } /\ Done) =>
        /\ sink.kind = "inserter"
        /\ (FailureFree(T) /\ FailedIdx = {}) => result.ok
        /\ result.ok =>
              /\ result.val = Len(sink.graph) - Len(graph0)
              /\ result.val = sink.count
              /\ sink.graph =
                   InsertAll(graph0, sink.dedup,
                             [i \in 1..Len(T) |-> T[i].val])

C8_Witness ==
    /\ entry = "in_graph" /\ Done
    /\ sink.kind = "inserter"
    /\ graph0 = <<>>
    /\ FeedArgs = << <<"a", "p", "1">>, <<"a", "p", "2">>, <<"b", "p", "3">> >>
    /\ result = Ok(3)
    /\ sink.graph = FeedArgs

\* A conversion that panicked.
IsPanic(x) == "panic" \in DOMAIN x

\* C9 as stated: unwrap_upstream returns the source error of a source-
\* tagged error and panics on a sink-tagged one; unwrap_downstream returns
\* the sink error and panics on a source-tagged one.
C9_AsStated ==
    pc = "end" =>
        /\ result.ok => unwrapped = Ok(result.val)
        /\ (conv = "unwrap_upstream" /\ SourceTagged(result)) =>
              unwrapped = Err(result.err.err)
        /\ (conv = "unwrap_upstream" /\ SinkTagged(result)) =>
              IsPanic(unwrapped)
        /\ (conv = "unwrap_downstream" /\ SinkTagged(result)) =>
              unwrapped = Err(result.err.err)
        /\ (conv = "unwrap_downstream" /\ SourceTagged(result)) =>
              IsPanic(unwrapped)

\* C9 (amended): both conversions pass Ok through unchanged;
\* unwrap_upstream panics on an Upstream error and returns the sink error
\* of a Downstream one; unwrap_downstream returns the source error of an
\* Upstream error and panics on a Downstream one.
C9_UnwrapPanicsOnNamedSide ==
    pc = "end" =>
        /\ result.ok => unwrapped = Ok(result.val)
        /\ (conv = "unwrap_upstream" /\ SourceTagged(result)) =>
              IsPanic(unwrapped)
        /\ (conv = "unwrap_upstream" /\ SinkTagged(result)) =>
              unwrapped = Err(result.err.err)
        /\ (conv = "unwrap_downstream" /\ SourceTagged(result)) =>
              unwrapped = Err(result.err.err)
        /\ (conv = "unwrap_downstream" /\ SinkTagged(result)) =>
              IsPanic(unwrapped)

C9_Witness ==
    /\ pc = "end"
    /\ conv = "unwrap_upstream"
    /\ result = Err(Downstream("ke2"))
    /\ unwrapped = Err("ke2")

\* The iterator is a plain sequence of triples put through an adapter.
Adapted == adapter # "none" /\ layers = 1
IsNext(c) == c.op = "next"
PullCalls == SelectSeq(calls, IsNext)

\* C10: an adapted sequence yields Ok(t) for each of its triples, in the
\* same order and number, then exhaustion, never a failure; a run on it
\* never returns a source-tagged error, and into () it returns Ok(()).
C10_AdapterYieldsOks ==
    Adapted =>
        /\ Len(iter) = Len(orig)
        /\ \A i \in 1..Len(orig) : iter[i] = Ok(orig[i])
        /\ \A j \in 1..Len(PullCalls) :
              PullCalls[j].res =
                 IF start + j <= Len(orig) THEN Some(Ok(orig[start + j]))
                 ELSE None
        /\ Done => ~SourceTagged(result)
        /\ (Done /\ sink.kind = "unit") => result = Ok(Unit)

C10_Witness ==
    /\ Adapted
    /\ Len(orig) = 3 /\ orig[1] # orig[2]
    /\ Done
    /\ sink.kind = "unit"
    /\ result = Ok(Unit)
    /\ Len(PullCalls) = 4

\* A pull that yielded a triple.
Yielded(c) == c.op = "next" /\ c.res.some /\ c.res.item.ok
NYielded == Cardinality({ i \in 1..Len(calls) : Yielded(calls[i]) })

\* C11: the driver holds at most one triple: the pulls that yielded a
\* triple exceed the feeds by at most one, every yielded triple is the
\* argument of the very next call, a feed, or is the one being held, and no
\* feed follows a failed feed.
C11_OneTripleAtATime ==
    /\ NYielded - NFeeds \in { 0, 1 }
    /\ \A i \in 1..Len(calls) :
         Yielded(calls[i]) =>
            IF i = Len(calls)
            THEN pc = "feed" /\ t = calls[i].res.item.val
            ELSE /\ calls[i + 1].op = "feed"
                 /\ calls[i + 1].arg = calls[i].res.item.val
    /\ \A i \in Idx("feed") :
         /\ i > 1 /\ Yielded(calls[i - 1])
         /\ Failed(calls[i]) => \A j \in Idx("feed") : j <= i

C11_Witness ==
    /\ pc = "feed"
    /\ NFeeds = 2
    /\ NYielded = 3
    /\ t = <<"b", "p", "3">>

\* A pull that reported exhaustion.
Exhausted(c) == c.op = "next" /\ ~c.res.some

\* C12: within a run no pull follows a pull that reported exhaustion or a
\* failure; exhaustion is followed by the finish call and nothing else, a
\* source failure by no call at all.
C12_NoPullAfterEnd ==
    \A i \in Idx("next") :
        /\ (Exhausted(calls[i]) \/ Failed(calls[i])) =>
              \A j \in Idx("next") : j <= i
        /\ Exhausted(calls[i]) =>
              \/ i = Len(calls) /\ pc = "finish"
              \/ /\ i + 1 = Len(calls)
                 /\ calls[i + 1].op = "finish"
                 /\ Done
        /\ Failed(calls[i]) => i = Len(calls) /\ Done

C12_Witness ==
    /\ Done
    /\ Len(calls) = 6
    /\ Exhausted(calls[5])
    /\ calls[6].op = "finish"
    /\ Len(iter) = 3 /\ start = 1

\* The triples of the feeds that succeeded, in call order.
FeedOk(c) == c.op = "feed" /\ c.res.ok
AcceptedCalls == SelectSeq(calls, FeedOk)
Accepted == [i \in 1..Len(AcceptedCalls) |-> AcceptedCalls[i].arg]

\* C13: when a run into a graph inserter ends with an error after j
\* successful feeds, the graph and the count hold the effect of exactly
\* those j feeds, in order, and the failed call is the last call made.
C13_NoRollback ==
    (sink.kind = "inserter" /\ Done /\ ~result.ok) =>
        /\ sink.graph = InsertAll(graph0, sink.dedup, Accepted)
        /\ sink.count = Len(sink.graph) - Len(graph0)
        /\ Failed(LastCall)
        /\ \A i \in 1..Len(calls) : calls[i].op \in { "next", "feed", "finish" }

C13_Witness ==
    /\ sink.kind = "inserter" /\ Done /\ ~result.ok
    /\ Len(Accepted) = 2
    /\ Len(graph0) = 1
    /\ Len(sink.graph) = 3
    /\ sink.count = 2
    /\ LastCall.op = "next"

\* C14: as_upstream maps Ok(v) to Ok(v) and Err(e) to Err(Upstream(e));
\* as_downstream maps Ok(v) to Ok(v) and Err(e) to Err(Downstream(e)); the
\* carried value is unchanged and success stays success, error stays error.
C14_AsUpDownstreamTagOnly ==
    pc = "converted" =>
        /\ unwrapped.ok = result.ok
        /\ result.ok => unwrapped = Ok(result.val)
        /\ (~result.ok /\ conv = "as_upstream") =>
              unwrapped = Err(Upstream(result.err))
        /\ (~result.ok /\ conv = "as_downstream") =>
              unwrapped = Err(Downstream(result.err))

C14_Witness ==
    /\ pc = "converted"
    /\ conv = "as_upstream"
    /\ result = Err("se2")
    /\ unwrapped = Err(Upstream("se2"))

\* C15: an adapter applied to an iterator whose items are already Results
\* is refused or leaves it as it is: no iterator ever has items wrapped in
\* two Results.
C15_NoDoubleWrap == layers <= 1

\* ---- The run both drivers are compared with: what the calls made so far
\* ---- determine, with the origin of an error in place of its tag.
\* Where the run stands after the calls made so far.
AbsPc ==
    IF calls = <<>> THEN "loop"
    ELSE IF Failed(LastCall) \/ LastCall.op = "finish" THEN "done"
    ELSE IF LastCall.op = "feed" THEN "loop"
    ELSE IF Exhausted(LastCall) THEN "finish"
    ELSE "feed"
\* The triple held after the calls made so far.
AbsT == IF AbsPc = "feed" THEN LastCall.res.item.val ELSE NoTriple
\* An error and the side it came from.
From(origin, e) == [origin |-> origin, err |-> e]
\* The result after the calls made so far.
AbsResult ==
    IF AbsPc # "done" THEN Pending
    ELSE IF ~Failed(LastCall) THEN Ok(LastCall.res.val)
    ELSE From(IF LastCall.op = "next" THEN "source" ELSE "sink",
              ErrorOf(LastCall))
\* The driver's result, read with Upstream = SourceError = source and
\* Downstream = SinkError = sink.
ResultRead ==
    IF result = Pending \/ result.ok THEN result
    ELSE From(IF SourceTagged(result) THEN "source" ELSE "sink",
              result.err.err)
\* The call at index i is the one the calls before it require.
Follows(i) ==
    LET c == calls[i]
        nprev == Cardinality({ j \in 1..(i - 1) : calls[j].op = "next" })
    IN  IF i > 1 /\ Yielded(calls[i - 1])
        THEN c.op = "feed" /\ c.arg = calls[i - 1].res.item.val
        ELSE IF i > 1 /\ Exhausted(calls[i - 1])
        THEN c.op = "finish"
        ELSE /\ i = 1 \/ (calls[i - 1].op = "feed" /\ calls[i - 1].res.ok)
             /\ c.op = "next"
             /\ c.res = next(iter, start + nprev).item
\* The driver that is not running.
Other == IF driver = "in_sink" THEN "into_sink" ELSE "in_sink"

\* C16: into_sink and in_sink are the same machine: in every state of a run
\* of either, the position in the loop, the held triple, the items taken and
\* the result (read with Upstream = SourceError, Downstream = SinkError) are
\* what the calls made so far determine, each call is the one the earlier
\* calls require, the sink answers both drivers alike, and the next call is
\* enabled.
C16_DriversAreTheSameMachine ==
    (driver \in { "in_sink", "into_sink" }
       /\ pc \in { "loop", "feed", "finish", "done", "end" }) =>
        /\ IF Done THEN AbsPc = "done" ELSE pc = AbsPc
        /\ t = AbsT
        /\ ResultRead = AbsResult
        /\ ~Done \/ result.ok \/
              result.err.tag \in (IF driver = "in_sink"
                                  THEN { "SourceError", "SinkError" }
                                  ELSE { "Upstream", "Downstream" })
        /\ pos = start + NYielded + Cardinality(Idx("next") \cap FailedIdx)
        /\ \A i \in 1..Len(calls) : Follows(i)
        /\ pc = "feed" => feed(driver, sink, t) = feed(Other, sink, t)
        /\ pc = "finish" => finish(driver, sink) = finish(Other, sink)
        /\ pc = "loop" => ENABLED (in_sink_next \/ into_sink_next)
        /\ pc = "feed" => ENABLED (in_sink_feed \/ into_sink_feed)
        /\ pc = "finish" => ENABLED (in_sink_finish \/ into_sink_finish)

C16_Witness ==
    /\ driver = "into_sink"
    /\ runs = 2
    /\ Done
    /\ NFeeds = 1
    /\ result = Err(Downstream("ke2"))

\* A run of in_sink that stopped on a failed pull or a failed feed.
StoppedAtItem ==
    /\ driver = "in_sink" /\ Done
    /\ calls # <<>> /\ Failed(LastCall) /\ LastCall.op \in { "next", "feed" }

\* C17: a run of in_sink that stops on a failure at its k-th item has taken
\* exactly k items from the source and leaves the rest in it; the pulls of a
\* run are the items from where the run started, and a later run on the
\* same source starts where the earlier one stopped.
C17_BorrowedSourceResumes ==
    /\ [](/\ StoppedAtItem =>
               /\ pos = start + NPulls
               /\ \A i \in (pos + 1)..Len(iter) :
                     next(iter, i - 1).item = Some(iter[i])
          /\ driver = "in_sink" =>
               \A j \in 1..Len(PullCalls) :
                  PullCalls[j].res =
                     IF start + j <= Len(iter) THEN Some(iter[start + j])
                     ELSE None)
    /\ [][(pc = "done" /\ pc' = "loop") =>
             (start' = pos /\ pos' = pos /\ iter' = iter)]_vars

C17_Witness ==
    /\ driver = "in_sink"
    /\ runs = 2
    /\ start = 2
    /\ Len(iter) = 3
    /\ ~iter[2].ok
    /\ Len(PullCalls) >= 1
    /\ PullCalls[1].res = Some(iter[3])

\* A driver is running.
Running == pc \in { "loop", "feed", "finish" }
\* A value a driver can return: an outcome, or an error with one tag.
IsResult(r) == r # Pending /\ (r.ok \/ SourceTagged(r) # SinkTagged(r))

\* C18: a run makes at most |T| + 1 pulls, |T| feeds and one finish, it
\* returns one result and does not change it, and a running driver
\* eventually returns.
C18_RunTerminates ==
    /\ [](/\ NPulls <= Len(T) + 1
          /\ NFeeds <= Len(T)
          /\ NFinish <= 1
          /\ Running => result = Pending
          /\ Done => IsResult(result))
    /\ [][(Done /\ Done') => result' = result]_vars
    /\ (Running ~> Done)

C18_Witness ==
    /\ Done
    /\ Len(T) = 3
    /\ NPulls = 4
    /\ NFeeds = 3
    /\ NFinish = 1
    /\ result.ok

====
